---- MODULE Spec2Model ----
(***************************************************************************)
(* A model of the TTS gateway: the request handler get_tts of src/main.rs   *)
(* (authorisation, validation, cache lookup, synthesis, cache store, length *)
(* check), and the credential refresh of src/premium.rs (generate_jwt and   *)
(* get_tts under the RwLock).                                               *)
(*                                                                         *)
(* Each handler is cut at its await points: one action per segment of code  *)
(* that runs between two suspension points.                                 *)
(***************************************************************************)
EXTENDS Integers, Sequences, FiniteSets, TLC

(***************************************************************************)
(* Bounds of the model.                                                     *)
(***************************************************************************)
\* Number of requests to /tts that may be in flight together.
NumReqs == 2
\* Number of callers of the credentialed backend that may be in flight together.
NumCallers == 2
\* Number of times the clock advances (by half a lease each time).
MaxTicks == 7

(***************************************************************************)
(* Option<T>: None is the empty sequence, Some(x) the one-element sequence. *)
(***************************************************************************)
None == <<>>
Some(x) == <<x>>
IsSome(o) == o # <<>>
unwrap_or(o, d) == IF o = <<>> THEN d ELSE o[1]

(***************************************************************************)
(* enum TTSMode and impl Display for TTSMode.                               *)
(***************************************************************************)
TTSMode == {"gTTS", "Polly", "eSpeak", "gCloud"}
ModeName(mode) ==
    CASE mode = "gTTS" -> "gTTS"
      [] mode = "Polly" -> "Polly"
      [] mode = "eSpeak" -> "eSpeak"
      [] mode = "gCloud" -> "gCloud"

(***************************************************************************)
(* enum Error, as the Err side of ResponseResult; Ok carries the audio.     *)
(* detail is the value the variant holds: the rate, the voice, or the text  *)
(* of the anyhow error that `?` converted (impl From<E> for Error).         *)
(***************************************************************************)
Error(kind, detail) == [ok |-> FALSE, err |-> kind, detail |-> detail, body |-> None]
into_response(data) == [ok |-> TRUE, err |-> "", detail |-> "", body |-> Some(data)]

(***************************************************************************)
(* impl Display for Error and impl IntoResponse for Error: the status and   *)
(* the JSON body {"display", "code"} the client receives for an Err.        *)
(***************************************************************************)
ErrorDisplay(e) ==
    CASE e.err = "InvalidSpeakingRate" -> "Invalid speaking rate: " \o e.detail
      [] e.err = "AudioTooLong" -> "Max length exceeded!"
      [] e.err = "UnknownVoice" -> "Unknown voice: " \o e.detail
      [] e.err = "Unauthorized" -> "Unauthorized request"
      [] e.err = "Unknown" -> "Unknown error: " \o e.detail

ErrorCode(e) ==
    CASE e.err = "Unauthorized" -> 4
      [] e.err = "InvalidSpeakingRate" -> 3
      [] e.err = "AudioTooLong" -> 2
      [] e.err = "UnknownVoice" -> 1
      [] e.err = "Unknown" -> 0

ErrorStatus(e) ==
    CASE e.err \in {"AudioTooLong", "InvalidSpeakingRate"} -> 400
      [] e.err = "Unknown" -> 500
      [] e.err = "UnknownVoice" -> 400
      [] e.err = "Unauthorized" -> 403

ErrorIntoResponse(e) ==
    [status |-> ErrorStatus(e), display |-> ErrorDisplay(e), code |-> ErrorCode(e)]

(***************************************************************************)
(* Inputs.  A speaking rate is a whole-valued f32, a length limit a u64.    *)
(***************************************************************************)
Texts == {"hi"}
Voices == {"en", "zz"}
Rates == {None, Some(501)}
MaxLengths == {None, Some(1)}
Formats == {None}
\* The value of the Authorization header, as bytes: absent, "k", "x", and one
\* byte outside ASCII.
Headers == {None, Some(<<107>>), Some(<<120>>), Some(<<255>>)}
GetTTS == [text : Texts, mode : TTSMode, voice : Voices, speaking_rate : Rates,
           max_length : MaxLengths, preferred_format : Formats]
\* An audio clip: its duration in whole seconds, and whether mp3_duration can
\* parse it.
Audios == {[secs |-> 0, mp3 |-> TRUE], [secs |-> 1, mp3 |-> TRUE], [secs |-> 1, mp3 |-> FALSE]}

(***************************************************************************)
(* TTSMode::max_speaking_rate and TTSMode::check_speaking_rate.             *)
(***************************************************************************)
max_speaking_rate(mode) ==
    CASE mode = "gTTS" -> None
      [] mode = "Polly" -> Some(500)
      [] mode = "eSpeak" -> Some(400)
      [] mode = "gCloud" -> Some(4)

\* The rate check with >= for >.
check_speaking_rate_inclusive(mode, speaking_rate) ==
    ~ (/\ IsSome(speaking_rate)
       /\ IsSome(max_speaking_rate(mode))
       /\ speaking_rate[1] >= max_speaking_rate(mode)[1])

\* TRUE when the rate is accepted, FALSE for Err(InvalidSpeakingRate).
check_speaking_rate(mode, speaking_rate) ==
    ~ (/\ IsSome(speaking_rate)
       /\ IsSome(max_speaking_rate(mode))
       /\ speaking_rate[1] > max_speaking_rate(mode)[1])

(***************************************************************************)
(* The voice check of each backend module (gtts, espeak, gcloud, polly):    *)
(* membership of the backend's voice list.                                  *)
(***************************************************************************)
VoiceList(mode) == {"en", "fr"}
\* The two cloud backends fetch their voice list over the network.
VoiceCheckIsRemote(mode) == mode \in {"gCloud", "Polly"}

(***************************************************************************)
(* check_mp3_length, espeak::check_length and TTSMode::check_length.        *)
(***************************************************************************)
check_mp3_length(audio, max_length) ==
    IF audio.mp3 THEN audio.secs < max_length ELSE TRUE

\* espeak::check_length takes the limit cast to u32; every limit of MaxLengths
\* lies below 2^32, where the cast is the identity.
espeak_check_length(audio, max_length) == audio.secs < max_length

\* TRUE for Ok(()), FALSE for Err(AudioTooLong).
check_length(mode, audio, max_length) ==
    IF max_length = None THEN TRUE
    ELSE CASE mode = "gTTS" -> check_mp3_length(audio, max_length[1])
           [] mode = "eSpeak" -> espeak_check_length(audio, max_length[1])
           [] mode \in {"gCloud", "Polly"} -> TRUE

(***************************************************************************)
(* The cache key of get_tts: format!("{text} | {voice} | {mode} | {}",      *)
(* speaking_rate.unwrap_or(0.0)), then write!("| {preferred_format}").      *)
(* A whole-valued f32 displays without a decimal point.                     *)
(***************************************************************************)
RateDisplay(rate) == ToString(rate)

cache_key(text, voice, mode, speaking_rate, preferred_format) ==
    LET base == text \o " | " \o voice \o " | " \o ModeName(mode) \o " | "
                     \o RateDisplay(unwrap_or(speaking_rate, 0))
    IN  IF IsSome(preferred_format)
        THEN base \o "| " \o preferred_format[1]
        ELSE base

\* Sha256 of the key: collision-free, so the digest stands for its input.
cache_hash(key) == key

KeyOf(p) == cache_hash(cache_key(p.text, p.voice, p.mode, p.speaking_rate, p.preferred_format))

(***************************************************************************)
(* The Fernet cipher of RedisCache: a token records the key that made it.   *)
(***************************************************************************)
CacheKeyEnv == "key-now"
encrypt(key, data) == [key |-> key, data |-> data]
\* Some(data) when the token verifies under the key, None for DecryptionError.
decrypt(key, enc) == IF enc.key = key THEN Some(enc.data) ELSE None

(***************************************************************************)
(* State.                                                                   *)
(***************************************************************************)
VARIABLES
    auth_key,    \* State.auth_key: Option<String>
    redis,       \* State.redis is configured
    cache,       \* the key-value store: digest -> Fernet token
    pc,          \* where each request is in get_tts
    payload,     \* the query of each request, once the handler has read it (lines 95-99)
    header,      \* the Authorization header the handler read (None: absent or unread)
    redis_info,  \* the handler's redis_info is Some
    audio,       \* the handler's audio (or cached_audio): Option
    response,    \* what the handler returned: Option
    trace,       \* the steps each request has performed, in order
    seen,        \* the requests that had been answered when each request arrived
    (* premium.rs *)
    boot,        \* where State::new is: "new", "generate", "up" or "panic"
    clock,       \* SystemTime::now(), in seconds
    state,       \* the RwLock<State>: jwt_token and expire_time
    readers,     \* the callers holding a read guard
    writer,      \* the caller holding the write guard: Option
    cpc,         \* where each caller is in premium::get_tts
    lang,        \* each caller's lang argument, split at spaces
    copy,        \* each caller's clone of the state: Option
    current_time,\* the clock reading of each caller's generate_jwt: Option
    generated,   \* what each caller's generate_jwt returned: Option<(token, expiry)>
    bearer,      \* the token of the Authorization header each caller sent: Option
    result,      \* what premium::get_tts returned: Option
    (* the cache key as a function of the request *)
    keyed,       \* two requests and, once computed, their cache keys
    (* the rate check as a function of mode and rate *)
    rated        \* a mode, a rate and, once checked, the verdict

dispatchVars == <<auth_key, redis, cache, pc, payload, header, redis_info, audio, response, trace,
                  seen>>


credVars == <<boot, clock, state, readers, writer, cpc, lang, copy, current_time,
              generated, bearer, result>>
\* The variables of the two function checks.
pureVars == <<keyed, rated>>
vars == <<dispatchVars, credVars, pureVars>>

Reqs == 1..NumReqs
Callers == 1..NumCallers

Lookup(k) == IF k \in DOMAIN cache THEN Some(cache[k]) ELSE None
\* A set that stores nothing.
PutNothing(k, v) == cache
Put(k, v) == [x \in DOMAIN cache \cup {k} |-> IF x = k THEN v ELSE cache[x]]

\* A cache entry left by an earlier run of the service under another CACHE_KEY.
StaleEntryFor == [text |-> "hi", mode |-> "gTTS", voice |-> "en", speaking_rate |-> None,
                  max_length |-> None, preferred_format |-> None]

\* No request has arrived.
HandlersIdle ==
    /\ pc = [r \in Reqs |-> "idle"]
    /\ payload = [r \in Reqs |-> None]
    /\ header = [r \in Reqs |-> None]
    /\ redis_info = [r \in Reqs |-> FALSE]
    /\ audio = [r \in Reqs |-> None]
    /\ response = [r \in Reqs |-> None]
    /\ trace = [r \in Reqs |-> <<>>]
    /\ seen = [r \in Reqs |-> {}]

\* main, lines 304-320: AUTH_KEY and REDIS_URI may each be set or not; the store
\* is empty or holds an entry of an earlier run.
InitDispatch ==
    /\ auth_key \in {None, Some(<<107>>)}
    /\ redis \in BOOLEAN
    /\ cache \in {<<>>, [k \in {KeyOf(StaleEntryFor)} |-> encrypt("key-old", [secs |-> 0, mp3 |-> TRUE])]}
    /\ (~redis => cache = <<>>)
    /\ HandlersIdle

\* The gateway without AUTH_KEY and REDIS_URI, and no request.
DispatchIdle ==
    /\ auth_key = None
    /\ redis = FALSE
    /\ cache = <<>>
    /\ HandlersIdle

\* The handler returns res, having performed steps.
Return(r, res, steps) ==
    /\ pc' = [pc EXCEPT ![r] = "done"]
    /\ response' = [response EXCEPT ![r] = Some(res)]
    /\ trace' = [trace EXCEPT ![r] = trace[r] \o steps]

Goto(r, label, steps) ==
    /\ pc' = [pc EXCEPT ![r] = label]
    /\ trace' = [trace EXCEPT ![r] = trace[r] \o steps]
    /\ UNCHANGED response

(***************************************************************************)
(* get_tts, lines 83-102: the Authorization check, check_speaking_rate, and *)
(* the call of check_voice (the first await).                               *)
(***************************************************************************)
\* HeaderValue::to_str: Some(the text) when every byte is visible ASCII or a
\* tab, None for ToStrError.
to_str(value) ==
    IF \A i \in 1..Len(value) : value[i] \in (32..126) \cup {9} THEN Some(value) ELSE None

\* Line 88: `?` on the header's to_str returns Error::Unknown.
HeaderUnreadable(h) == auth_key # None /\ h # None /\ to_str(h[1]) = None

AuthPasses(h) == auth_key = None \/ (h # None /\ to_str(h[1]) = auth_key)

\* get_tts with the rate error returned only after the voice check.
ReceiveLateReject(r, p, h) ==
    /\ UNCHANGED <<credVars, pureVars>>
    /\ pc[r] = "idle"
    /\ \A q \in Reqs : q < r => pc[q] # "idle"
    /\ seen' = [seen EXCEPT ![r] = {q \in Reqs : pc[q] = "done"}]
    /\ header' = [header EXCEPT ![r] = IF auth_key = None THEN None ELSE h]
    /\ payload' = [payload EXCEPT ![r] = IF AuthPasses(h) THEN Some(p) ELSE None]
    /\ IF HeaderUnreadable(h)
         THEN Return(r, Error("Unknown", "header"), <<"auth_failed">>)
       ELSE IF ~AuthPasses(h)
         THEN Return(r, Error("Unauthorized", ""), <<"auth">>)
       ELSE IF ~check_speaking_rate(p.mode, p.speaking_rate)
         THEN Return(r, Error("InvalidSpeakingRate", ToString(p.speaking_rate[1])), <<"auth", "voice", "rate">>)
       ELSE Goto(r, "voice", <<"auth", "rate">>)
    /\ UNCHANGED <<auth_key, redis, cache, redis_info, audio>>

Receive(r, p, h) ==
    /\ UNCHANGED <<credVars, pureVars>>
    /\ pc[r] = "idle"
    /\ \A q \in Reqs : q < r => pc[q] # "idle"
    /\ seen' = [seen EXCEPT ![r] = {q \in Reqs : pc[q] = "done"}]
    /\ header' = [header EXCEPT ![r] = IF auth_key = None THEN None ELSE h]
    /\ payload' = [payload EXCEPT ![r] = IF AuthPasses(h) THEN Some(p) ELSE None]
    /\ IF HeaderUnreadable(h)
         THEN Return(r, Error("Unknown", "header"), <<"auth_failed">>)
       ELSE IF ~AuthPasses(h)
         THEN Return(r, Error("Unauthorized", ""), <<"auth">>)
       ELSE IF ~check_speaking_rate(p.mode, p.speaking_rate)
         THEN Return(r, Error("InvalidSpeakingRate", ToString(p.speaking_rate[1])), <<"auth", "rate">>)
       ELSE Goto(r, "voice", <<"auth", "rate">>)
    /\ UNCHANGED <<auth_key, redis, cache, redis_info, audio>>

(***************************************************************************)
(* TTSMode::check_voice, then lines 104-122: the key, and the request for a *)
(* pooled connection when the cache is configured.                          *)
(***************************************************************************)
\* The steps of a voice check that came to a verdict: for gCloud and Polly the
\* call of the backend (lines 221-222) comes first.
VoiceSteps(mode) == IF VoiceCheckIsRemote(mode) THEN <<"voice_list", "voice">> ELSE <<"voice">>

\* The handler taking the cache path whether or not a store is configured.
CheckVoiceAlwaysCache(r, netOk) ==
    /\ UNCHANGED <<credVars, pureVars>>
    /\ pc[r] = "voice"
    /\ LET p == payload[r][1] IN
       /\ (netOk = FALSE) => VoiceCheckIsRemote(p.mode)
       /\ IF ~netOk
            THEN Return(r, Error("Unknown", "voice list"), <<"voice_failed">>)
          ELSE IF p.voice \notin VoiceList(p.mode)
            THEN Return(r, Error("UnknownVoice", p.voice), VoiceSteps(p.mode))
          ELSE Goto(r, "connect", VoiceSteps(p.mode))
    /\ UNCHANGED <<auth_key, redis, cache, payload, header, redis_info, audio, seen>>

CheckVoice(r, netOk) ==
    /\ UNCHANGED <<credVars, pureVars>>
    /\ pc[r] = "voice"
    /\ LET p == payload[r][1] IN
       /\ (netOk = FALSE) => VoiceCheckIsRemote(p.mode)
       /\ IF ~netOk
            THEN Return(r, Error("Unknown", "voice list"), <<"voice_failed">>)
          ELSE IF p.voice \notin VoiceList(p.mode)
            THEN Return(r, Error("UnknownVoice", p.voice), VoiceSteps(p.mode))
          ELSE IF redis
            THEN Goto(r, "connect", VoiceSteps(p.mode))
          ELSE Goto(r, "synth", VoiceSteps(p.mode))
    /\ UNCHANGED <<auth_key, redis, cache, payload, header, redis_info, audio, seen>>

(***************************************************************************)
(* Line 122: redis_state.client.get().await?                                *)
(***************************************************************************)
CacheConnect(r, connOk) ==
    /\ UNCHANGED <<credVars, pureVars>>
    /\ pc[r] = "connect"
    /\ IF connOk
         THEN Goto(r, "get", <<"connect">>)
         ELSE Return(r, Error("Unknown", "redis pool"), <<"connect_failed">>)
    /\ UNCHANGED <<auth_key, redis, cache, payload, header, redis_info, audio, seen>>

\* A cache hit returned without its length check.
HitResponseUnchecked(p, cached_audio) == into_response(cached_audio)

\* Lines 130-135: what a cache hit returns.
HitResponse(p, cached_audio) ==
    IF check_length(p.mode, cached_audio, p.max_length)
      THEN into_response(cached_audio)
      ELSE Error("AudioTooLong", "")

(***************************************************************************)
(* Lines 123-140: conn.get, decrypt, and on a hit check_length and the      *)
(* response; on a miss redis_info is Some and synthesis starts.             *)
(***************************************************************************)
CacheGet(r, getOk) ==
    /\ UNCHANGED <<credVars, pureVars>>
    /\ pc[r] = "get"
    /\ LET p == payload[r][1]
           found == Lookup(KeyOf(p))
           cached_audio == IF IsSome(found) THEN decrypt(CacheKeyEnv, found[1]) ELSE None
       IN
       IF ~getOk
         THEN /\ Return(r, Error("Unknown", "redis get"), <<"get_failed">>)
              /\ UNCHANGED <<redis_info, audio>>
       ELSE IF IsSome(found) /\ cached_audio = None
         THEN /\ Return(r, Error("Unknown", "decrypt"), <<"get", "decrypt_failed">>)
              /\ UNCHANGED <<redis_info, audio>>
       ELSE IF IsSome(found)
         THEN /\ audio' = [audio EXCEPT ![r] = cached_audio]
              /\ UNCHANGED redis_info
              /\ Return(r, HitResponse(p, cached_audio[1]), <<"get", "decrypt", "hit", "length">>)
       ELSE /\ redis_info' = [redis_info EXCEPT ![r] = TRUE]
            /\ UNCHANGED audio
            /\ Goto(r, "synth", <<"get", "miss">>)
    /\ UNCHANGED <<auth_key, redis, cache, payload, header, seen>>

\* Lines 181-182: check_length and the response.
Finish(r, a, steps) ==
    LET p == payload[r][1] IN
    IF check_length(p.mode, a, p.max_length)
      THEN Return(r, into_response(a), steps \o <<"length">>)
      ELSE Return(r, Error("AudioTooLong", ""), steps \o <<"length">>)

(***************************************************************************)
(* Lines 142-173: the backend's get_tts; then the cache set is issued when  *)
(* redis_info is Some, else lines 181-182 follow at once.                   *)
(***************************************************************************)
Synthesize(r, res) ==
    /\ UNCHANGED <<credVars, pureVars>>
    /\ pc[r] = "synth"
    /\ IF res = None
         THEN /\ Return(r, Error("Unknown", "backend"), <<"synth_failed">>)
              /\ UNCHANGED audio
       ELSE /\ audio' = [audio EXCEPT ![r] = res]
            /\ IF redis_info[r]
                 THEN Goto(r, "store", <<"synth">>)
                 ELSE Finish(r, res[1], <<"synth">>)
    /\ UNCHANGED <<auth_key, redis, cache, payload, header, redis_info, seen>>

\* An error of the cache set returned with `?`.
OnStoreErrorPropagates(r, a) == Return(r, Error("Unknown", "redis set"), <<"store_failed">>)

\* Lines 171-176: an error of the cache set is logged, and the handler goes on.
OnStoreError(r, a) == Finish(r, a, <<"store_failed">>)

(***************************************************************************)
(* Lines 171-182: the result of the cache set, check_length, the response.  *)
(***************************************************************************)
\* The handler checking the length before the cache set, and storing only audio
\* that passed.
CacheStoreChecked(r, setOk) ==
    /\ UNCHANGED <<credVars, pureVars>>
    /\ pc[r] = "store"
    /\ LET p == payload[r][1]
           a == audio[r][1]
       IN
       IF ~check_length(p.mode, a, p.max_length)
         THEN /\ UNCHANGED cache
              /\ Return(r, Error("AudioTooLong", ""), <<"length">>)
       ELSE IF setOk
         THEN /\ cache' = Put(KeyOf(p), encrypt(CacheKeyEnv, a))
              /\ Finish(r, a, <<"store">>)
       ELSE /\ UNCHANGED cache
            /\ OnStoreError(r, a)
    /\ UNCHANGED <<auth_key, redis, payload, header, redis_info, audio, seen>>

CacheStore(r, setOk) ==
    /\ UNCHANGED <<credVars, pureVars>>
    /\ pc[r] = "store"
    /\ LET p == payload[r][1]
           a == audio[r][1]
       IN
       IF setOk
         THEN /\ cache' = Put(KeyOf(p), encrypt(CacheKeyEnv, a))
              /\ Finish(r, a, <<"store">>)
       ELSE /\ UNCHANGED cache
            /\ OnStoreError(r, a)
    /\ UNCHANGED <<auth_key, redis, payload, header, redis_info, audio, seen>>

(***************************************************************************)
(* premium.rs: the credential of the Google backend.                        *)
(***************************************************************************)
\* The lease of a token, in seconds (line 75).
Lease == 3600

\* jsonwebtoken::encode of the claims of lines 76-82 under the service account's
\* key: the same claims give the same token.
encode(iat, exp) == [iat |-> iat, exp |-> exp]

\* Result<T>: Ok(v), or Err with the text of the error that `?` returns.
Ok(v) == [ok |-> TRUE, val |-> v, why |-> ""]
Err(why) == [ok |-> FALSE, val |-> None, why |-> why]

\* What State::new finds at GOOGLE_APPLICATION_CREDENTIALS (line 16): the variable
\* unset, no such file, a file that is not a service account in JSON, or a service
\* account whose private_key is or is not an RSA key in PEM.
Credentials == {[env |-> "unset", private_key |-> ""], [env |-> "nofile", private_key |-> ""],
                [env |-> "notjson", private_key |-> ""], [env |-> "file", private_key |-> "pem"],
                [env |-> "file", private_key |-> "junk"]}

\* jsonwebtoken::EncodingKey::from_rsa_pem (line 70) accepts the key.
from_rsa_pem(private_key) == private_key = "pem"

\* generate_jwt without its test of the clock.
generate_jwt_always(service_account, expire_time, now) ==
    Ok(Some([jwt_token |-> encode(now, now + Lease), expire_time |-> now + Lease]))

\* generate_jwt given its reading of the clock: Ok(Some((token, new_expire_time)))
\* when the clock has passed expire_time, Ok(None) otherwise; Err when the key of
\* the service account does not parse.
generate_jwt(service_account, expire_time, now) ==
    IF now > expire_time
      THEN IF from_rsa_pem(service_account.private_key)
             THEN Ok(Some([jwt_token |-> encode(now, now + Lease), expire_time |-> now + Lease]))
             ELSE Err("invalid rsa key")
      ELSE Ok(None)

\* generate_google_json: lang.split_once(' ') must find a space.
generate_google_json(l) == Len(l) >= 2

Langs == {<<"en-US", "A">>, <<"en-US">>}

InitCred ==
    /\ boot = [at |-> "new", expire_time |-> None, service_account |-> None]
    /\ clock = 0
    /\ state = None
    /\ readers = {}
    /\ writer = None
    /\ cpc = [c \in Callers |-> "idle"]
    /\ lang = [c \in Callers |-> <<>>]
    /\ copy = [c \in Callers |-> None]
    /\ current_time = [c \in Callers |-> None]
    /\ generated = [c \in Callers |-> None]
    /\ bearer = [c \in Callers |-> None]
    /\ result = [c \in Callers |-> None]

\* The clock advances.
Tick ==
    /\ clock < MaxTicks * (Lease \div 2)
    /\ clock' = clock + (Lease \div 2)
    /\ UNCHANGED <<dispatchVars, pureVars>>
    /\ UNCHANGED <<boot, state, readers, writer, cpc, lang, copy, current_time,
                   generated, bearer, result>>

(***************************************************************************)
(* State::new.  Line 16: the service account is read (unwrap panics when    *)
(* the variable is unset, `?` returns the error of the file or of the       *)
(* JSON); line 17: the argument SystemTime::now() is read.                  *)
(***************************************************************************)
NewReadClock(cred) ==
    /\ boot.at = "new"
    /\ boot' = CASE cred.env = "unset" ->
                      [at |-> "panic_env", expire_time |-> None, service_account |-> None]
                 [] cred.env \in {"nofile", "notjson"} ->
                      [at |-> "Err", expire_time |-> None, service_account |-> None]
                 [] cred.env = "file" ->
                      [at |-> "generate", expire_time |-> Some(clock),
                       service_account |-> Some([private_key |-> cred.private_key])]
    /\ UNCHANGED <<dispatchVars, pureVars>>
    /\ UNCHANGED <<clock, state, readers, writer, cpc, lang, copy, current_time,
                   generated, bearer, result>>

(***************************************************************************)
(* Line 17: generate_jwt reads the clock itself; `?` returns its Err,       *)
(* unwrap panics on None; lines 19-22 build the state.                      *)
(***************************************************************************)
NewGenerate ==
    /\ boot.at = "generate"
    /\ LET made == generate_jwt(boot.service_account[1], boot.expire_time[1], clock) IN
       IF ~made.ok
         THEN /\ boot' = [at |-> "Err", expire_time |-> None, service_account |-> None]
              /\ UNCHANGED state
       ELSE IF made.val = None
         THEN /\ boot' = [at |-> "panic", expire_time |-> None, service_account |-> None]
              /\ UNCHANGED state
         ELSE /\ boot' = [at |-> "up", expire_time |-> None,
                          service_account |-> boot.service_account]
              /\ state' = Some(made.val[1])
    /\ UNCHANGED <<dispatchVars, pureVars>>
    /\ UNCHANGED <<clock, readers, writer, cpc, lang, copy, current_time,
                   generated, bearer, result>>

(***************************************************************************)
(* premium::get_tts.  The position of a caller: idle, reading (it holds the *)
(* read guard), cloned, want_write, writing (it holds the write guard),     *)
(* ready (line 104), sending (line 110), body (line 119), done.             *)
(***************************************************************************)
\* Line 91: state.read().await grants the read guard once no writer holds the lock.
AcquireRead(c, l) ==
    /\ cpc[c] = "idle"
    /\ \A d \in Callers : d < c => cpc[d] # "idle"
    /\ boot.at = "up"
    /\ writer = None
    /\ readers' = readers \cup {c}
    /\ lang' = [lang EXCEPT ![c] = l]
    /\ cpc' = [cpc EXCEPT ![c] = "reading"]
    /\ UNCHANGED <<dispatchVars, pureVars>>
    /\ UNCHANGED <<boot, clock, state, writer, copy, current_time, generated, bearer, result>>

\* The read guard is a temporary of the let statement of line 91.
ReleaseRead(c) == readers \ {c}
\* A write guard that lives to the end of get_tts.
KeepWrite(c) == Some(c)
\* The write guard state_write lives in the block of lines 94-102.
ReleaseWrite(c) == None

\* Line 91: the clone of the state, and the read guard dropped at the end of the
\* statement.
CloneState(c) ==
    /\ cpc[c] = "reading"
    /\ copy' = [copy EXCEPT ![c] = state]
    /\ readers' = ReleaseRead(c)
    /\ cpc' = [cpc EXCEPT ![c] = "cloned"]
    /\ UNCHANGED <<dispatchVars, pureVars>>
    /\ UNCHANGED <<boot, clock, state, writer, lang, current_time, generated, bearer, result>>

\* Lines 93-98: generate_jwt reads the clock and tests the cloned expiry; then the
\* write lock is requested, or line 104 follows; `?` returns generate_jwt's Err.
Decide(c) ==
    /\ cpc[c] = "cloned"
    /\ LET cloned == copy[c][1]
           made == generate_jwt(boot.service_account[1], cloned.expire_time, clock)
       IN
       /\ current_time' = [current_time EXCEPT ![c] = Some(clock)]
       /\ generated' = [generated EXCEPT ![c] = made.val]
       /\ IF ~made.ok
            THEN /\ cpc' = [cpc EXCEPT ![c] = "done"]
                 /\ result' = [result EXCEPT ![c] = Some("Err: " \o made.why)]
          ELSE IF made.val # None
            THEN /\ cpc' = [cpc EXCEPT ![c] = "want_write"]
                 /\ UNCHANGED result
          ELSE /\ cpc' = [cpc EXCEPT ![c] = "ready"]
               /\ UNCHANGED result
    /\ UNCHANGED <<dispatchVars, pureVars>>
    /\ UNCHANGED <<boot, clock, state, readers, writer, lang, copy, bearer>>

\* Line 98: state.write().await grants the write guard once the lock is free.
AcquireWrite(c) ==
    /\ cpc[c] = "want_write"
    /\ readers = {}
    /\ writer = None
    /\ writer' = Some(c)
    /\ cpc' = [cpc EXCEPT ![c] = "writing"]
    /\ UNCHANGED <<dispatchVars, pureVars>>
    /\ UNCHANGED <<boot, clock, state, readers, lang, copy, current_time, generated,
                   bearer, result>>

\* An install that keeps the stored pair when it expires later than the new one.
InstallIfNewer(c) ==
    /\ cpc[c] = "writing"
    /\ state' = IF generated[c][1].expire_time > state[1].expire_time
                  THEN Some(generated[c][1]) ELSE state
    /\ writer' = ReleaseWrite(c)
    /\ cpc' = [cpc EXCEPT ![c] = "ready"]
    /\ UNCHANGED <<dispatchVars, pureVars>>
    /\ UNCHANGED <<boot, clock, readers, lang, copy, current_time, generated, bearer, result>>

\* An install that writes the token and leaves the expiry.
InstallTokenOnly(c) ==
    /\ cpc[c] = "writing"
    /\ state' = Some([jwt_token |-> generated[c][1].jwt_token,
                      expire_time |-> state[1].expire_time])
    /\ writer' = ReleaseWrite(c)
    /\ cpc' = [cpc EXCEPT ![c] = "ready"]
    /\ UNCHANGED <<dispatchVars, pureVars>>
    /\ UNCHANGED <<boot, clock, readers, lang, copy, current_time, generated, bearer, result>>

\* Lines 100-102: the new pair installed and the write guard dropped.
Install(c) ==
    /\ cpc[c] = "writing"
    /\ state' = Some(generated[c][1])
    /\ writer' = ReleaseWrite(c)
    /\ cpc' = [cpc EXCEPT ![c] = "ready"]
    /\ UNCHANGED <<dispatchVars, pureVars>>
    /\ UNCHANGED <<boot, clock, readers, lang, copy, current_time, generated, bearer, result>>

\* Line 104: the token the request goes on with.
TokenInUse(c, cloned) == cloned.jwt_token

\* Lines 104-110: the token, the body, and the request sent; or the error of
\* generate_google_json.
SendOrFail(c, cloned) ==
    IF generate_google_json(lang[c])
      THEN /\ bearer' = [bearer EXCEPT ![c] = Some(TokenInUse(c, cloned))]
           /\ cpc' = [cpc EXCEPT ![c] = "sending"]
           /\ UNCHANGED result
      ELSE /\ result' = [result EXCEPT ![c] = Some("Err: lang")]
           /\ cpc' = [cpc EXCEPT ![c] = "done"]
           /\ UNCHANGED bearer

Send(c) ==
    /\ cpc[c] = "ready"
    /\ SendOrFail(c, copy[c][1])
    /\ UNCHANGED <<dispatchVars, pureVars>>
    /\ UNCHANGED <<boot, clock, state, readers, writer, lang, copy, current_time, generated>>

\* Line 110: send().await completes; `?` returns a transport error and
\* error_for_status()? an error status.
Status(c, ok) ==
    /\ cpc[c] = "sending"
    /\ IF ok
         THEN /\ cpc' = [cpc EXCEPT ![c] = "body"]
              /\ UNCHANGED result
         ELSE /\ cpc' = [cpc EXCEPT ![c] = "done"]
              /\ result' = [result EXCEPT ![c] = Some("Err: backend")]
    /\ UNCHANGED <<dispatchVars, pureVars>>
    /\ UNCHANGED <<boot, clock, state, readers, writer, lang, copy, current_time,
                   generated, bearer>>

\* Lines 119-124: resp.bytes().await completes; the body is parsed and decoded.
Respond(c, ok) ==
    /\ cpc[c] = "body"
    /\ result' = [result EXCEPT ![c] = Some(IF ok THEN "Ok" ELSE "Err: backend")]
    /\ cpc' = [cpc EXCEPT ![c] = "done"]
    /\ UNCHANGED <<dispatchVars, pureVars>>
    /\ UNCHANGED <<boot, clock, state, readers, writer, lang, copy, current_time,
                   generated, bearer>>

(***************************************************************************)
(* The cache key of two requests that passed validation.                    *)
(***************************************************************************)
KeyTexts == {"hi", "yo", "hi | en | gTTS | 0| x"}
KeyRates == {None, Some(0), Some(1)}
KeyFormats == {None, Some("ogg"), Some("x | en | gTTS | 0")}
KeyInputs == [text : KeyTexts, mode : TTSMode, voice : VoiceList("gTTS"),
              speaking_rate : KeyRates, preferred_format : KeyFormats]

ComputeKeys ==
    /\ keyed.ka = None
    /\ keyed' = [keyed EXCEPT !.ka = Some(KeyOf(keyed.a)), !.kb = Some(KeyOf(keyed.b))]
    /\ UNCHANGED <<dispatchVars, credVars, rated>>

(***************************************************************************)
(* check_speaking_rate on every mode and a range of rates.                  *)
(***************************************************************************)
\* The largest rate tried.
MaxRate == 502
RateInputs == {None} \cup {Some(x) : x \in -1..MaxRate}

\* mode.check_speaking_rate(speaking_rate): Some(TRUE) for Ok(()), Some(FALSE)
\* for Err(InvalidSpeakingRate).
CheckRate ==
    /\ rated.verdict = None
    /\ rated' = [rated EXCEPT !.verdict = Some(check_speaking_rate(rated.mode, rated.rate))]
    /\ UNCHANGED <<dispatchVars, credVars, keyed>>

(***************************************************************************)
(* Specifications.                                                          *)
(***************************************************************************)
KeyIdle == keyed = None
RateIdle == rated = None

\* The request handler of main.rs.
Init == InitDispatch /\ InitCred /\ KeyIdle /\ RateIdle

Next ==
    \E r \in Reqs :
        \/ \E p \in GetTTS, h \in Headers : Receive(r, p, h)
        \/ \E netOk \in BOOLEAN : CheckVoice(r, netOk)
        \/ \E connOk \in BOOLEAN : CacheConnect(r, connOk)
        \/ \E getOk \in BOOLEAN : CacheGet(r, getOk)
        \/ \E res \in {None} \cup {Some(a) : a \in Audios} : Synthesize(r, res)
        \/ \E setOk \in BOOLEAN : CacheStore(r, setOk)

Spec == Init /\ [][Next]_vars

\* The credential of premium.rs.
InitCredSpec == DispatchIdle /\ InitCred /\ KeyIdle /\ RateIdle

NextCred ==
    \/ Tick
    \/ \E cred \in Credentials : NewReadClock(cred)
    \/ NewGenerate
    \/ \E c \in Callers :
        \/ \E l \in Langs : AcquireRead(c, l)
        \/ CloneState(c)
        \/ Decide(c)
        \/ AcquireWrite(c)
        \/ Install(c)
        \/ Send(c)
        \/ \E ok \in BOOLEAN : Status(c, ok)
        \/ \E ok \in BOOLEAN : Respond(c, ok)

SpecCred == InitCredSpec /\ [][NextCred]_vars

\* The cache key.
InitKey ==
    /\ DispatchIdle
    /\ InitCred
    /\ RateIdle
    /\ \E a \in KeyInputs, b \in KeyInputs : keyed = [a |-> a, b |-> b, ka |-> None, kb |-> None]

SpecKey == InitKey /\ [][ComputeKeys]_vars

\* The rate check.
InitRate ==
    /\ DispatchIdle
    /\ InitCred
    /\ KeyIdle
    /\ \E m \in TTSMode, x \in RateInputs : rated = [mode |-> m, rate |-> x, verdict |-> None]

SpecRate == InitRate /\ [][CheckRate]_vars

(***************************************************************************)
(* Properties of the request handler.                                       *)
(***************************************************************************)
Done(r) == pc[r] = "done"
Did(r, step) == \E i \in 1..Len(trace[r]) : trace[r][i] = step
Count(r, step) == Cardinality({i \in 1..Len(trace[r]) : trace[r][i] = step})
\* The steps at which a cache or network call of the request failed.
FaultSteps == {"auth_failed", "voice_failed", "connect_failed", "get_failed", "decrypt_failed",
               "synth_failed", "store_failed"}
NoFault(r) == \A i \in 1..Len(trace[r]) : trace[r][i] \notin FaultSteps
\* The request called the backend's get_tts.
Synthesized(r) == Did(r, "synth") \/ Did(r, "synth_failed")
\* What lines 181-182 return for the request's audio.
LengthChecked(r) ==
    IF check_length(payload[r][1].mode, audio[r][1], payload[r][1].max_length)
      THEN into_response(audio[r][1])
      ELSE Error("AudioTooLong", "")

(***************************************************************************)
(* Properties of the credential.                                            *)
(***************************************************************************)
\* The caller has read the state and found it expired / not expired.
\* The caller has compared the expiry it read with its reading of the clock.
Decided(c) == copy[c] # None /\ current_time[c] # None
ReadExpired(c) == Decided(c) /\ copy[c][1].expire_time < current_time[c][1]
ReadValid(c) == Decided(c) /\ copy[c][1].expire_time > current_time[c][1]

\* C1: a request that read an expired token sends, on its own synthesis call, the
\* token it generated, never the expired token it read.
C1_SendsFreshToken ==
    \A c \in Callers :
        (ReadExpired(c) /\ bearer[c] # None) => bearer[c][1] = generated[c][1].jwt_token

\* C2: a request whose cache entry fails to decrypt goes on to synthesis and can
\* return audio; the decryption failure is never its outcome.
C2_DecryptFailureIsMiss ==
    \A r \in Reqs :
        (Done(r) /\ Did(r, "decrypt_failed")) =>
            /\ Synthesized(r)
            /\ response[r][1] # Error("Unknown", "decrypt")

\* C3: a failure to get a connection to the store, or of the store's get, never
\* fails the request: it goes on to synthesis as if the cache were empty.
C3_ReadFailureIsMiss ==
    \A r \in Reqs :
        (Done(r) /\ (Did(r, "connect_failed") \/ Did(r, "get_failed"))) =>
            /\ Synthesized(r)
            /\ response[r][1] \notin {Error("Unknown", "redis pool"), Error("Unknown", "redis get")}

\* C4: when synthesis succeeded and the cache set failed, the request's outcome is
\* the one it has when the set succeeds: the audio if the length check passes,
\* AudioTooLong otherwise, never the error of the set.
C4_StoreFailureIgnored ==
    \A r \in Reqs :
        (Done(r) /\ (Did(r, "store") \/ Did(r, "store_failed"))) =>
            response[r] = Some(LengthChecked(r))

C4_Witness ==
    \E r \in Reqs :
        /\ Done(r) /\ Did(r, "store_failed")
        /\ response[r][1].ok
        /\ response[r][1].body = audio[r]

\* The place of each step in the order of section 4.2.
StepRank(step) ==
    CASE step \in {"auth", "auth_failed"} -> 0
      [] step = "rate" -> 1
      [] step \in {"voice_list", "voice", "voice_failed"} -> 2
      [] step \in {"connect", "connect_failed", "get", "get_failed", "decrypt",
                   "decrypt_failed", "hit", "miss"} -> 3
      [] step \in {"synth", "synth_failed"} -> 4
      [] step \in {"store", "store_failed"} -> 5
      [] step = "length" -> 6

\* C5: the steps of a request come in the order rate, voice, cache lookup,
\* synthesize, length, each at most once, and the request stops at the first step
\* that fails: after InvalidSpeakingRate no voice check, cache access or synthesis,
\* after UnknownVoice no cache access or synthesis, after a failed synthesis no
\* cache store.
C5_StepOrder ==
    \A r \in Reqs :
        LET t == trace[r]
            n == Len(t)
            Kind == IF response[r] = None THEN "" ELSE response[r][1].err
        IN
        /\ \A i, j \in 1..n : i < j => StepRank(t[i]) <= StepRank(t[j])
        /\ \A step \in {"rate", "voice", "synth", "length"} : Count(r, step) <= 1
        /\ \A i \in 1..n : t[i] \in FaultSteps \ {"store_failed"} => i = n
        /\ Kind = "InvalidSpeakingRate" =>
              /\ t[n] = "rate"
              /\ \A i \in 1..n : StepRank(t[i]) <= 1
        /\ Kind = "UnknownVoice" =>
              /\ t[n] = "voice"
              /\ \A i \in 1..n : StepRank(t[i]) <= 2
        /\ Did(r, "synth_failed") => ~Did(r, "store") /\ ~Did(r, "store_failed")
        /\ Did(r, "length") => t[n] = "length"

C5_Witness ==
    /\ \E r \in Reqs : Done(r) /\ response[r][1].err = "InvalidSpeakingRate"
    /\ \E r \in Reqs : Done(r) /\ trace[r] = <<"auth", "rate", "voice", "connect", "get", "miss",
                                               "synth", "store", "length">>

\* The request was answered from the cache / from a synthesis of its own.
ServedFromCache(r) == Done(r) /\ Did(r, "hit")
ServedFresh(r) == Done(r) /\ Did(r, "synth") /\ Did(r, "length")

\* C6: a request served from the cache fails with AudioTooLong exactly when its
\* audio fails check_length under its own limit, and its outcome is the outcome of
\* any request that synthesized the same audio under the same mode and limit.
C6_SameLengthCheck ==
    /\ \A r \in Reqs :
          ServedFromCache(r) =>
              /\ response[r][1] = Error("AudioTooLong", "")
                    <=> ~check_length(payload[r][1].mode, audio[r][1], payload[r][1].max_length)
              /\ response[r][1] = into_response(audio[r][1])
                    <=> check_length(payload[r][1].mode, audio[r][1], payload[r][1].max_length)
    /\ \A r1, r2 \in Reqs :
          (/\ ServedFromCache(r1) /\ ServedFresh(r2)
           /\ payload[r1][1].mode = payload[r2][1].mode
           /\ payload[r1][1].max_length = payload[r2][1].max_length
           /\ audio[r1] = audio[r2]) => response[r1] = response[r2]

\* An entry stored by a request without a limit is refused to a later request
\* whose limit it exceeds.
C6_Witness ==
    \E r1, r2 \in Reqs :
        /\ ServedFresh(r1) /\ Did(r1, "store")
        /\ payload[r1][1].max_length = None /\ response[r1][1].ok
        /\ ServedFromCache(r2) /\ KeyOf(payload[r2][1]) = KeyOf(payload[r1][1])
        /\ audio[r2] = audio[r1]
        /\ response[r2][1] = Error("AudioTooLong", "")

\* r2 arrived after r1 was answered, with r1's cache key, and every other request
\* with that key arrived after r1 was answered too; no call of r1 or r2 failed.
FirstThenSecond(r1, r2) ==
    /\ r1 # r2 /\ redis
    /\ Done(r1) /\ Did(r1, "miss") /\ Did(r1, "synth") /\ NoFault(r1)
    /\ Done(r2) /\ r1 \in seen[r2] /\ NoFault(r2)
    /\ payload[r2] # None /\ KeyOf(payload[r2][1]) = KeyOf(payload[r1][1])
    /\ \A q \in Reqs \ {r1} :
          (payload[q] # None /\ KeyOf(payload[q][1]) = KeyOf(payload[r1][1])) => r1 \in seen[q]

\* C7 as stated: the first request performs one synthesis and one store, the second
\* none, and the second returns the audio the first stored.
C7_SecondReturnsAudio ==
    \A r1, r2 \in Reqs :
        FirstThenSecond(r1, r2) =>
            /\ Count(r1, "synth") = 1 /\ Count(r1, "store") = 1
            /\ ~Synthesized(r2) /\ ~Did(r2, "store")
            /\ response[r2] = Some(into_response(audio[r1][1]))

\* C7, amended: the second request performs no synthesis and no store, and returns
\* the audio the first stored when that audio passes the second's own length check,
\* AudioTooLong when it does not.
C7_SecondServedFromCache ==
    \A r1, r2 \in Reqs :
        FirstThenSecond(r1, r2) =>
            /\ Count(r1, "synth") = 1 /\ Count(r1, "store") = 1
            /\ ~Synthesized(r2) /\ ~Did(r2, "store")
            /\ Did(r2, "hit")
            /\ response[r2] =
                  Some(IF check_length(payload[r2][1].mode, audio[r1][1], payload[r2][1].max_length)
                         THEN into_response(audio[r1][1])
                         ELSE Error("AudioTooLong", ""))

C7_Witness ==
    \E r1, r2 \in Reqs :
        /\ FirstThenSecond(r1, r2)
        /\ response[r2] = Some(into_response(audio[r1][1]))

\* The fields the fingerprint is made of.
SameFields(a, b) ==
    /\ a.text = b.text
    /\ a.voice = b.voice
    /\ a.mode = b.mode
    /\ unwrap_or(a.speaking_rate, 0) = unwrap_or(b.speaking_rate, 0)
    /\ a.preferred_format = b.preferred_format

\* C8: two requests have the same cache key exactly when they agree on text, voice,
\* mode, speakingRate-or-0 and preferredFormat.
C8_KeyInjective ==
    keyed # None /\ keyed.ka # None => ((keyed.ka = keyed.kb) <=> SameFields(keyed.a, keyed.b))

\* C9: a request that read a token whose expiry lies in the future generates no
\* token and never asks for the write lock; what it read is the stored pair, the
\* token it sends is the token it read, and none of its steps changes the stored
\* pair.
C9_ValidTokenReused ==
    /\ [](\A c \in Callers :
            ReadValid(c) =>
                /\ generated[c] = None
                /\ cpc[c] \notin {"want_write", "writing"}
                /\ bearer[c] # None => bearer[c][1] = copy[c][1].jwt_token)
    /\ [][\A c \in Callers :
            /\ (copy[c] = None /\ copy'[c] # None) => (copy'[c] = state /\ state' = state)
            /\ (cpc'[c] # cpc[c] /\ ReadValid(c)') =>
                  /\ state' = state
                  /\ (bearer[c] = None /\ bearer'[c] # None) =>
                        bearer'[c][1] = copy[c][1].jwt_token]_vars

\* Two requests have sent the one stored token.
C9_Witness ==
    \E c, d \in Callers :
        /\ c # d
        /\ ReadValid(c) /\ ReadValid(d)
        /\ bearer[c] # None /\ bearer[c] = bearer[d]
        /\ state = copy[c] /\ state = copy[d]

\* C10: no request holds the read or the write guard while its synthesis call is
\* in flight; the read guard is held only while the state is copied, the write
\* guard only while the new token is installed.
C10_NoLockAcrossCall ==
    \A c \in Callers :
        /\ cpc[c] = "sending" => (c \notin readers /\ writer # Some(c))
        /\ c \in readers => cpc[c] = "reading"
        /\ writer = Some(c) => cpc[c] = "writing"

\* A request that installed a token is awaiting its synthesis call while another
\* holds the lock.
C10_Witness ==
    \E c, d \in Callers :
        /\ c # d
        /\ cpc[c] = "sending" /\ generated[c] # None
        /\ (d \in readers \/ writer = Some(d))

(***************************************************************************)
(* Properties of the rate check.                                            *)
(***************************************************************************)
\* C11: the rate check fails exactly when the rate is present, the mode is Polly,
\* eSpeak or gCloud and the rate is strictly greater than 500, 400 or 4; a rate
\* equal to the maximum, an absent rate, and every rate under gTTS are accepted.
C11_RateBoundary ==
    rated # None /\ rated.verdict # None =>
        LET rejected == rated.verdict = Some(FALSE)
            over == /\ rated.rate # None
                    /\ \/ rated.mode = "Polly" /\ rated.rate[1] > 500
                       \/ rated.mode = "eSpeak" /\ rated.rate[1] > 400
                       \/ rated.mode = "gCloud" /\ rated.rate[1] > 4
        IN  /\ rejected <=> over
            /\ rated.verdict \in {Some(TRUE), Some(FALSE)}

\* The rate 4 is accepted under gCloud.
C11_Witness ==
    /\ rated # None
    /\ rated.mode = "gCloud" /\ rated.rate = Some(4) /\ rated.verdict = Some(TRUE)

\* The request has called a backend over the network.
BackendCalled(r) == Did(r, "voice_list") \/ Did(r, "voice_failed") \/ Synthesized(r)

\* The request passed the rate check and names a voice its mode does not have.
VoiceIsUnknown(r) ==
    /\ payload[r] # None
    /\ check_speaking_rate(payload[r][1].mode, payload[r][1].speaking_rate)
    /\ payload[r][1].voice \notin VoiceList(payload[r][1].mode)

\* C12: a request whose voice is not a voice of its mode ends with UnknownVoice,
\* and it has called no backend over the network when that outcome is produced.
C12_UnknownVoiceBeforeNetwork ==
    \A r \in Reqs :
        (Done(r) /\ VoiceIsUnknown(r)) =>
            /\ response[r][1] = Error("UnknownVoice", payload[r][1].voice)
            /\ ~BackendCalled(r)

\* The steps that touch the store.
CacheSteps == {"connect", "connect_failed", "get", "get_failed", "decrypt",
               "decrypt_failed", "hit", "miss", "store", "store_failed"}

\* C13: without a configured store no request reads or writes the cache; every
\* request that passed the rate and voice checks goes to synthesis, and the
\* outcome of a synthesis that succeeded is that of the length check alone.
C13_NoCacheConfigured ==
    ~redis =>
        /\ cache = <<>>
        /\ \A r \in Reqs :
              /\ \A i \in 1..Len(trace[r]) : trace[r][i] \notin CacheSteps
              /\ ~redis_info[r]
              /\ (Did(r, "voice") /\ ~(Done(r) /\ response[r][1].err = "UnknownVoice")) =>
                    (pc[r] = "synth" \/ Synthesized(r))
              /\ (Done(r) /\ Did(r, "synth")) => response[r] = Some(LengthChecked(r))

\* Without a store, two requests for the same audio were both synthesized.
C13_Witness ==
    /\ ~redis
    /\ \E r1, r2 \in Reqs :
          /\ r1 # r2 /\ r1 \in seen[r2]
          /\ Done(r1) /\ Done(r2)
          /\ payload[r1] # None /\ payload[r1] = payload[r2]
          /\ Did(r1, "synth") /\ Did(r2, "synth")
          /\ response[r1][1].ok /\ response[r2][1].ok

\* C14: every request that fails with Error::Unknown receives the same response
\* (status, display message and code), whatever the cause of the failure.
C14_UnknownIsOpaque ==
    \A r1, r2 \in Reqs :
        (/\ Done(r1) /\ response[r1][1].err = "Unknown"
         /\ Done(r2) /\ response[r2][1].err = "Unknown") =>
            ErrorIntoResponse(response[r1][1]) = ErrorIntoResponse(response[r2][1])

\* C15: with an auth key configured, a request whose Authorization header is
\* absent or differs from the key fails with Unauthorized, and that is all the
\* handler did: no rate or voice check, no cache access, no backend call.
C15_UnauthorizedFirst ==
    \A r \in Reqs :
        (pc[r] # "idle" /\ auth_key # None /\ header[r] # auth_key) =>
            /\ Done(r)
            /\ response[r] = Some(Error("Unauthorized", ""))
            /\ trace[r] = <<"auth">>
            /\ audio[r] = None /\ ~redis_info[r]

\* C16: a request that read a token whose expiry is not after its reading of the
\* clock, equality included, generates a fresh token; only a token whose expiry is
\* strictly after the clock is left in place.
C16_RefreshAtExpiry ==
    \A c \in Callers :
        Decided(c) =>
            (generated[c] # None <=> copy[c][1].expire_time <= current_time[c][1])

\* The caller has written its pair and released the write guard.
Installed(c) == generated[c] # None /\ cpc[c] \in {"ready", "sending", "body", "done"}

\* C17: every request that read an expired token generates a token of its own
\* from its own reading of the clock and installs it under the write lock; each
\* install replaces the stored pair by the installer's, whatever pair is stored,
\* so the state is the pair of the last writer.
C17_LastWriterWins ==
    /\ [](\A c \in Callers :
            ReadExpired(c) =>
                /\ generated[c] = Some([jwt_token |-> encode(current_time[c][1], current_time[c][1] + Lease),
                                        expire_time |-> current_time[c][1] + Lease])
                /\ cpc[c] \in {"want_write", "writing", "ready", "sending", "body", "done"})
    /\ [][/\ \A c \in Callers :
              /\ (cpc[c] = "want_write" /\ cpc'[c] # cpc[c]) => (cpc'[c] = "writing" /\ writer' = Some(c))
              /\ (cpc[c] = "writing" /\ cpc'[c] # cpc[c]) => (writer = Some(c) /\ state' = generated[c])
          /\ (state # None /\ state' # state) =>
                \E c \in Callers : cpc[c] = "writing" /\ state' = generated[c]]_vars

\* Two requests read the same expired token; the one that generated its token
\* earlier installed last, and the stored expiry is the earlier one.
C17_Witness ==
    \E c, d \in Callers :
        /\ c # d
        /\ ReadExpired(c) /\ ReadExpired(d) /\ copy[c] = copy[d]
        /\ Installed(c) /\ Installed(d)
        /\ current_time[c][1] < current_time[d][1]
        /\ generated[c][1].expire_time < generated[d][1].expire_time
        /\ state = generated[c]

\* The pair comes from one generation: the token's claims are those of the
\* generation whose time is the expiry less the lease.
OneGeneration(s) == s.jwt_token = encode(s.expire_time - Lease, s.expire_time)

\* C18: the stored pair, and every copy a reader took of it, is the token and the
\* expiry of one single generation, the expiry being that generation's time plus
\* the lease of 3600 seconds.
C18_PairFromOneGeneration ==
    /\ state # None => OneGeneration(state[1])
    /\ \A c \in Callers : copy[c] # None => OneGeneration(copy[c][1])
    /\ Lease = 3600

\* A request copied the pair another request installed, after two installs of
\* different pairs.
C18_Witness ==
    \E c, d \in Callers :
        /\ c # d
        /\ Installed(c) /\ generated[c] # generated[d]
        /\ copy[d] = generated[c]
        /\ Installed(d) /\ state = generated[d]

\* C20: State::new always obtains its token: generate_jwt returns Some for every
\* pair of clock readings, so the unwrap of generate_jwt's result at line 17 never
\* panics.
C20_NewNeverPanics == boot.at # "panic"

\* No other request has the request's cache key.
OnlyOneWithKey(r) ==
    \A q \in Reqs \ {r} : payload[q] = None \/ KeyOf(payload[q][1]) # KeyOf(payload[r][1])

\* C19 as stated: a request whose freshly synthesized audio fails the length check
\* leaves the cache without an entry for its key.
C19_NoEntryForTooLong ==
    \A r \in Reqs :
        (/\ Done(r) /\ Did(r, "synth")
         /\ response[r] = Some(Error("AudioTooLong", ""))
         /\ OnlyOneWithKey(r)) =>
            KeyOf(payload[r][1]) \notin DOMAIN cache

\* C19, amended: the cache set comes before the length check and does not depend
\* on it: a request that missed, synthesized, and whose set did not fail has
\* stored its audio, whether its answer is the audio or AudioTooLong; the entry
\* of its key holds the audio of a request that stored under that key.
C19_StoredBeforeLengthCheck ==
    \A r \in Reqs :
        (Done(r) /\ Did(r, "miss") /\ Did(r, "synth") /\ ~Did(r, "store_failed")) =>
            /\ Did(r, "store")
            /\ response[r] = Some(LengthChecked(r))
            /\ KeyOf(payload[r][1]) \in DOMAIN cache
            /\ \E q \in Reqs :
                  /\ payload[q] # None /\ KeyOf(payload[q][1]) = KeyOf(payload[r][1])
                  /\ Did(q, "store")
                  /\ cache[KeyOf(payload[r][1])] = encrypt(CacheKeyEnv, audio[q][1])
            /\ OnlyOneWithKey(r) => cache[KeyOf(payload[r][1])] = encrypt(CacheKeyEnv, audio[r][1])

\* A request answered AudioTooLong has left its audio in the cache.
C19_Witness ==
    \E r \in Reqs :
        /\ Done(r) /\ Did(r, "store")
        /\ response[r] = Some(Error("AudioTooLong", ""))
        /\ OnlyOneWithKey(r)
        /\ cache[KeyOf(payload[r][1])] = encrypt(CacheKeyEnv, audio[r][1])

====
